---- MODULE Spec2Model ----
(***************************************************************************)
(* Model of fmriprep/interfaces/cifti.py: the GenerateCifti interface      *)
(* (input traits, _fetch_data) and create_cifti_image, which walks the     *)
(* CIFTI_STRUCT_WITH_LABELS catalogue and builds one brain model per       *)
(* structure together with the [timepoints x index] matrix.                *)
(*                                                                         *)
(* Python values are modelled as follows.  A list or 1-D array is a        *)
(* sequence holding 0-based values (element p of the Python object is      *)
(* element p+1 of the sequence).  A 2-D array is a record                  *)
(* [rows |-> r, cols |-> <<column, ...>>], each column a sequence of r     *)
(* values.  The content of a data file is symbolic: the value of vertex v  *)
(* at frame f of surface file g is <<"gii", g, f, v>>, that of voxel c at  *)
(* frame t of the BOLD volume is <<"bold", c, t>>, so that the origin of   *)
(* every matrix cell can be read off the cell.  A raised exception ends    *)
(* the run: pc = "failed" and error holds the exception's class.           *)
(***************************************************************************)
EXTENDS Integers, Sequences, FiniteSets, TLC

\* ------------------------------------------------------------------ bounds
MaxVerts == 2
MaxFrames == 2
MaxDim == 2
MaxMatch == 2

\* ---------------------------------------------------------------- catalogue
\* CIFTI_STRUCT_WITH_LABELS, in the order the dict literal lists its keys.
\* parts is the name split at "_" (structure.split('_')).
CIFTI_STRUCT_WITH_LABELS ==
  << [name |-> "CIFTI_STRUCTURE_CORTEX_LEFT", parts |-> <<"CIFTI", "STRUCTURE", "CORTEX", "LEFT">>, labels |-> <<>>],
     [name |-> "CIFTI_STRUCTURE_CORTEX_RIGHT", parts |-> <<"CIFTI", "STRUCTURE", "CORTEX", "RIGHT">>, labels |-> <<>>],
     [name |-> "CIFTI_STRUCTURE_ACCUMBENS_LEFT", parts |-> <<"CIFTI", "STRUCTURE", "ACCUMBENS", "LEFT">>, labels |-> <<26>>],
     [name |-> "CIFTI_STRUCTURE_ACCUMBENS_RIGHT", parts |-> <<"CIFTI", "STRUCTURE", "ACCUMBENS", "RIGHT">>, labels |-> <<58>>],
     [name |-> "CIFTI_STRUCTURE_AMYGDALA_LEFT", parts |-> <<"CIFTI", "STRUCTURE", "AMYGDALA", "LEFT">>, labels |-> <<18>>],
     [name |-> "CIFTI_STRUCTURE_AMYGDALA_RIGHT", parts |-> <<"CIFTI", "STRUCTURE", "AMYGDALA", "RIGHT">>, labels |-> <<54>>],
     [name |-> "CIFTI_STRUCTURE_BRAIN_STEM", parts |-> <<"CIFTI", "STRUCTURE", "BRAIN", "STEM">>, labels |-> <<16>>],
     [name |-> "CIFTI_STRUCTURE_CAUDATE_LEFT", parts |-> <<"CIFTI", "STRUCTURE", "CAUDATE", "LEFT">>, labels |-> <<11>>],
     [name |-> "CIFTI_STRUCTURE_CAUDATE_RIGHT", parts |-> <<"CIFTI", "STRUCTURE", "CAUDATE", "RIGHT">>, labels |-> <<50>>],
     [name |-> "CIFTI_STRUCTURE_CEREBELLUM_LEFT", parts |-> <<"CIFTI", "STRUCTURE", "CEREBELLUM", "LEFT">>, labels |-> <<6>>],
     [name |-> "CIFTI_STRUCTURE_CEREBELLUM_RIGHT", parts |-> <<"CIFTI", "STRUCTURE", "CEREBELLUM", "RIGHT">>, labels |-> <<45>>],
     [name |-> "CIFTI_STRUCTURE_DIENCEPHALON_VENTRAL_LEFT", parts |-> <<"CIFTI", "STRUCTURE", "DIENCEPHALON", "VENTRAL", "LEFT">>, labels |-> <<28>>],
     [name |-> "CIFTI_STRUCTURE_DIENCEPHALON_VENTRAL_RIGHT", parts |-> <<"CIFTI", "STRUCTURE", "DIENCEPHALON", "VENTRAL", "RIGHT">>, labels |-> <<60>>],
     [name |-> "CIFTI_STRUCTURE_HIPPOCAMPUS_LEFT", parts |-> <<"CIFTI", "STRUCTURE", "HIPPOCAMPUS", "LEFT">>, labels |-> <<17>>],
     [name |-> "CIFTI_STRUCTURE_HIPPOCAMPUS_RIGHT", parts |-> <<"CIFTI", "STRUCTURE", "HIPPOCAMPUS", "RIGHT">>, labels |-> <<53>>],
     [name |-> "CIFTI_STRUCTURE_PALLIDUM_LEFT", parts |-> <<"CIFTI", "STRUCTURE", "PALLIDUM", "LEFT">>, labels |-> <<13>>],
     [name |-> "CIFTI_STRUCTURE_PALLIDUM_RIGHT", parts |-> <<"CIFTI", "STRUCTURE", "PALLIDUM", "RIGHT">>, labels |-> <<52>>],
     [name |-> "CIFTI_STRUCTURE_PUTAMEN_LEFT", parts |-> <<"CIFTI", "STRUCTURE", "PUTAMEN", "LEFT">>, labels |-> <<12>>],
     [name |-> "CIFTI_STRUCTURE_PUTAMEN_RIGHT", parts |-> <<"CIFTI", "STRUCTURE", "PUTAMEN", "RIGHT">>, labels |-> <<51>>],
     [name |-> "CIFTI_STRUCTURE_THALAMUS_LEFT", parts |-> <<"CIFTI", "STRUCTURE", "THALAMUS", "LEFT">>, labels |-> <<10>>],
     [name |-> "CIFTI_STRUCTURE_THALAMUS_RIGHT", parts |-> <<"CIFTI", "STRUCTURE", "THALAMUS", "RIGHT">>, labels |-> <<49>>] >>

NumStructures == Len(CIFTI_STRUCT_WITH_LABELS)

\* ------------------------------------------------------------- input traits
\* volume_target = traits.Enum("MNI152NLin2009cAsym", ...)
VolumeTargetEnum == <<"MNI152NLin2009cAsym">>
\* surface_target = traits.Enum("fsaverage5", "fsaverage6", "fsaverage", ...)
SurfaceTargetEnum == <<"fsaverage5", "fsaverage6", "fsaverage">>

Range(s) == {s[i] : i \in 1..Len(s)}

\* An Enum trait accepts exactly the values it lists.
TraitsAcceptAnySurface(vt, st) == vt \in Range(VolumeTargetEnum)
TraitsAccept(vt, st) == vt \in Range(VolumeTargetEnum) /\ st \in Range(SurfaceTargetEnum)

\* The test at the head of _fetch_data.
SubjectSpace(vt, st) == st = "fsnative" \/ vt # "MNI152NLin2009cAsym"

\* --------------------------------------------------------------- primitives
\* str[0] of the last part of a structure name.
FirstChar(word) ==
  CASE word = "LEFT" -> "L"
    [] word = "RIGHT" -> "R"
    [] word = "STEM" -> "S"

\* hemi = structure.split('_')[-1][0]
Hemi(structure) == FirstChar(structure.parts[Len(structure.parts)])

\* The list index annotation_files[hemi == "RIGHT"] and gii_files[hemi == "RIGHT"]
\* select: a Python bool used as an index, False -> 0, True -> 1.
FileIndex(structure) == IF Hemi(structure) = "RIGHT" THEN 1 ELSE 0

\* list.index(x): the 0-based position of the first x, or -1 where Python
\* raises ValueError.
ListIndex(names, x) ==
  IF \E i \in 1..Len(names) : names[i] = x
    THEN (CHOOSE i \in 1..Len(names) : names[i] = x /\ \A j \in 1..(i - 1) : names[j] # x) - 1
    ELSE -1

RECURSIVE NonzeroFrom(_, _, _)
NonzeroFrom(arr, code, p) ==
  IF p > Len(arr) THEN <<>>
  ELSE IF arr[p] # code THEN <<p - 1>> \o NonzeroFrom(arr, code, p + 1)
  ELSE NonzeroFrom(arr, code, p + 1)

\* np.nonzero(arr != code)[0]: the 0-based positions whose value differs
\* from code, ascending.
NonzeroNotEqual(arr, code) == NonzeroFrom(arr, code, 1)

\* idx_offset += len(...)
AdvanceOffsetStale(offset, count) == offset
AdvanceOffset(offset, count) == offset + count

\* np.column_stack((a, b)) of two 2-D arrays: "ValueError" when the row
\* counts differ.
ColumnStack(a, b) ==
  IF a.rows # b.rows THEN [err |-> "ValueError", val |-> a]
  ELSE [err |-> "none", val |-> [rows |-> a.rows, cols |-> a.cols \o b.cols]]

\* -------------------------------------------------------- surface structures
\* The body of the "if not labels" branch up to the append, as a value:
\* err is the exception raised ("none" if none), bm the brain model, stacked
\* the new bm_ts, ts the extracted series, file the list index read.
SurfaceBranch(structure, annots, giis, offset, matrix) ==
  LET fi == FileIndex(structure)
      annot == annots[fi + 1]
      gii == giis[fi + 1]
      surf_verts == Len(annot.labels)
      unknown == ListIndex(annot.names, "unknown")
      vert_idx == NonzeroNotEqual(annot.labels, unknown)
      series == [rows |-> gii.nframes,
                 cols |-> [j \in 1..Len(vert_idx) |->
                            [f \in 1..gii.nframes |-> <<"gii", gii.hemi, f - 1, vert_idx[j]>>]]]
      bm == [brain_structure |-> structure.name,
             model_type |-> "CIFTI_MODEL_TYPE_SURFACE",
             index_offset |-> offset,
             index_count |-> Len(vert_idx),
             vertex_indices |-> vert_idx,
             surface_number_of_vertices |-> surf_verts]
      stacked == ColumnStack(matrix, series)
      none == [rows |-> 0, cols |-> <<>>]
  IN  IF unknown = -1
        THEN [err |-> "ValueError", bm |-> <<>>, stacked |-> matrix, ts |-> none, file |-> fi]
      ELSE IF \E j \in 1..Len(vert_idx) : vert_idx[j] >= gii.nverts
        THEN [err |-> "IndexError", bm |-> <<>>, stacked |-> matrix, ts |-> none, file |-> fi]
      ELSE IF stacked.err # "none"
        THEN [err |-> stacked.err, bm |-> <<>>, stacked |-> matrix, ts |-> series, file |-> fi]
      ELSE [err |-> "none", bm |-> bm, stacked |-> stacked.val, ts |-> series, file |-> fi]

\* --------------------------------------------------------- volume structures
\* The voxel at 0-based position n of a C-ordered array of the given shape.
Unravel(n, shape) ==
  << n \div (shape[2] * shape[3]), (n \div shape[3]) % shape[2], n % shape[3] >>

\* np.nonzero(label_data == label): the matching voxels in C (row-major)
\* order; flat holds the array's values in that order.
LabelVoxels(label_data, label) ==
  LET hits == NonzeroNotEqual([n \in 1..Len(label_data.flat) |->
                                 IF label_data.flat[n] = label THEN 1 ELSE 0], 0)
  IN  [ix \in 1..Len(hits) |-> Unravel(hits[ix], label_data.shape)]

InBounds(c, shape) == c[1] < shape[1] /\ c[2] < shape[2] /\ c[3] < shape[3]

\* bold_data[ijk]: one row of timepoints values per voxel of ijk.
BoldAt(ijk, shape) ==
  [ix \in 1..Len(ijk) |-> [t \in 1..shape[4] |-> <<"bold", ijk[ix], t - 1>>]]

\* The "for label in labels" loop from its n-th label on, with the lists vox
\* and ts as they stand; err tells whether bold_data[ijk] or the list
\* comprehension (which runs ix over enumerate(ts)) raised.
RECURSIVE LabelLoop(_, _, _, _, _, _)
LabelLoop(labels, n, label_data, shape, voxels, series) ==
  IF n > Len(labels) THEN [err |-> "none", vox |-> voxels, ts |-> series]
  ELSE
    LET ijk == LabelVoxels(label_data, labels[n])
        series2 == Append(series, BoldAt(ijk, shape))
    IN  IF \E ix \in 1..Len(ijk) : ~InBounds(ijk[ix], shape)
          THEN [err |-> "IndexError", vox |-> voxels, ts |-> series]
        ELSE IF Len(series2) > Len(ijk)
          THEN [err |-> "IndexError", vox |-> voxels, ts |-> series2]
        ELSE LabelLoop(labels, n + 1, label_data, shape,
                       voxels \o [ix \in 1..Len(series2) |-> ijk[ix]], series2)

\* ts.T where ts is the list built by ts.append: a list has no attribute T.
ListT(series) == [err |-> "AttributeError", val |-> [rows |-> 0, cols |-> <<>>]]

\* The body of the else branch up to the append, as a value; mtype is
\* model_type as the loop finds it.
VolumeBranch(structure, label_data, shape, offset, matrix, mtype) ==
  LET loop == LabelLoop(structure.labels, 1, label_data, shape, <<>>, <<>>)
      tsT == ListT(loop.ts)
      stacked == ColumnStack(matrix, tsT.val)
      bm == [brain_structure |-> structure.name,
             model_type |-> mtype,
             index_offset |-> offset,
             index_count |-> Len(loop.vox),
             voxel_indices_ijk |-> loop.vox]
  IN  IF loop.err # "none"
        THEN [err |-> loop.err, bm |-> <<>>, stacked |-> matrix, vox |-> loop.vox, ts |-> loop.ts]
      ELSE IF tsT.err # "none"
        THEN [err |-> tsT.err, bm |-> <<>>, stacked |-> matrix, vox |-> loop.vox, ts |-> loop.ts]
      ELSE IF stacked.err # "none"
        THEN [err |-> stacked.err, bm |-> <<>>, stacked |-> matrix, vox |-> loop.vox, ts |-> loop.ts]
      ELSE [err |-> "none", bm |-> bm, stacked |-> stacked.val, vox |-> loop.vox, ts |-> loop.ts]

\* What follows the loop: the Cifti2Volume appended to brainmodels.
VolumeRecord(shape) == [volume_dimensions |-> <<shape[1], shape[2], shape[3]>>, meter_exponent |-> -3]

\* "{}.dtseries.nii".format(out_file), out_file the BOLD file's base name.
OutName(bold_name) == <<bold_name, ".dtseries.nii">>

\* -------------------------------------------------------------------- state
VARIABLES
  volume_target,     \* inputs.volume_target as requested
  surface_target,    \* inputs.surface_target as requested
  annotation_files,  \* what sorted(glob(...)) finds: <<>> or <<lh, rh>>
  gii_files,         \* inputs.gifti_files, ordered [L, R]
  bold_img,          \* the BOLD file: its name and 4-D shape
  label_data,        \* the label atlas: its 3-D shape and values
  pc,                \* "validate", "fetch", "load", "loop", "done", "failed"
  error,             \* class of the exception that ended the run, or "none"
  timepoints,
  model_type,
  idx_offset,
  brainmodels,
  bm_ts,
  si,                \* position in the catalogue of the structure handled next
  vox,               \* the volume branch's list vox as last assigned
  ts,                \* the branch's ts as last assigned
  reads,             \* every file access made so far
  out_files          \* the files written

inputs == <<volume_target, surface_target, annotation_files, gii_files, bold_img, label_data>>
locals == <<timepoints, model_type, idx_offset, brainmodels, bm_ts, si, vox, ts>>
vars == <<inputs, locals, pc, error, reads, out_files>>

\* ------------------------------------------------------------------- inputs
NameTables == { <<"unknown", "bankssts">>, <<"bankssts", "unknown">>, <<"bankssts", "precentral">> }
LabelArrays == UNION { [1..n -> 0..1] : n \in 1..MaxVerts }
AnnotationPairs ==
  { << [hemi |-> "L", labels |-> l, names |-> nt], [hemi |-> "R", labels |-> r, names |-> nt] >> :
      l \in LabelArrays, r \in LabelArrays, nt \in NameTables }
GiftiPairs(frames) ==
  { << [hemi |-> "L", nverts |-> a, nframes |-> f], [hemi |-> "R", nverts |-> b, nframes |-> f] >> :
      a \in 1..(MaxVerts + 1), b \in 1..(MaxVerts + 1), f \in frames }

\* An atlas holding every label code of the catalogue once.
AtlasShape == <<5, 2, 2>>
Atlas ==
  [shape |-> AtlasShape,
   flat |-> [n \in 1..(AtlasShape[1] * AtlasShape[2] * AtlasShape[3]) |->
               IF n + 2 <= NumStructures THEN CIFTI_STRUCT_WITH_LABELS[n + 2].labels[1] ELSE 0]]
Bold(shape, frames) == [name |-> "bold", shape |-> <<shape[1], shape[2], shape[3], frames>>]

\* A pair of annotations and surface series that fit each other.
PlainAnnotations ==
  << [hemi |-> "L", labels |-> <<1, 0>>, names |-> <<"unknown", "bankssts">>],
     [hemi |-> "R", labels |-> <<0, 1>>, names |-> <<"unknown", "bankssts">>] >>
PlainGifti(frames) ==
  << [hemi |-> "L", nverts |-> 2, nframes |-> frames], [hemi |-> "R", nverts |-> 2, nframes |-> frames] >>

RECURSIVE UpTo(_, _)
\* The subsets of S with at most k elements.
UpTo(S, k) ==
  IF k = 0 THEN {{}}
  ELSE LET smaller == UpTo(S, k - 1) IN smaller \cup { A \cup {x} : A \in smaller, x \in S }

SmallShapes == { <<x, y, z>> : x \in 1..MaxDim, y \in 1..MaxDim, z \in 1..MaxDim }
\* The label volumes of a shape with at most MaxMatch labelled voxels, each
\* carrying the code of one of the first two volume structures.
LabelVolumes(shape) ==
  LET n == shape[1] * shape[2] * shape[3]
  IN  { [shape |-> shape, flat |-> [p \in 1..n |-> IF p \in M THEN code[p] ELSE 0]] :
          code \in [1..n -> {26, 58}], M \in UpTo(1..n, MaxMatch) }

StartState ==
  /\ pc = "validate" /\ error = "none"
  /\ timepoints = 0 /\ model_type = "" /\ idx_offset = 0
  /\ brainmodels = <<>> /\ bm_ts = [rows |-> 0, cols |-> <<>>]
  /\ si = 0 /\ vox = <<>> /\ ts = <<>>
  /\ reads = {} /\ out_files = {}

\* Surface inputs vary, the volumes fit.
InitSurface ==
  /\ volume_target = "MNI152NLin2009cAsym" /\ surface_target = "fsaverage5"
  /\ annotation_files \in AnnotationPairs
  /\ gii_files \in GiftiPairs(1..MaxFrames)
  /\ \E f \in 1..MaxFrames : bold_img = Bold(AtlasShape, f)
  /\ label_data = Atlas
  /\ StartState

\* Volume inputs vary, the surfaces fit.
InitVolume ==
  /\ volume_target = "MNI152NLin2009cAsym" /\ surface_target = "fsaverage5"
  /\ annotation_files = PlainAnnotations
  /\ \E f \in 1..MaxFrames, b \in SmallShapes \cup {AtlasShape} :
       /\ bold_img = Bold(b, f)
       /\ gii_files = PlainGifti(f)
  /\ label_data \in {Atlas} \cup UNION { LabelVolumes(s) : s \in SmallShapes }
  /\ StartState

\* The requested targets vary, and whether annotations are found.
InitTargets ==
  /\ volume_target \in {"MNI152NLin2009cAsym", "MNI152Lin"}
  /\ surface_target \in {"fsaverage5", "fsaverage6", "fsaverage", "fsaverage4", "fsnative"}
  /\ annotation_files \in {<<>>} \cup AnnotationPairs
  /\ \E f \in 1..MaxFrames :
       /\ bold_img = Bold(AtlasShape, f)
       /\ gii_files = PlainGifti(f)
  /\ label_data = Atlas
  /\ StartState

Init == InitSurface \/ InitVolume \/ InitTargets

\* ------------------------------------------------------------------ actions
Raise(e) == pc' = "failed" /\ error' = e

\* Assigning the inputs: the Enum traits of GenerateCiftiInputSpec reject a
\* value they do not list (TraitError).
ValidateInputs ==
  /\ pc = "validate"
  /\ IF TraitsAccept(volume_target, surface_target)
       THEN pc' = "fetch" /\ error' = error
       ELSE Raise("TraitError")
  /\ UNCHANGED <<inputs, locals, reads, out_files>>

\* GenerateCifti._fetch_data
FetchData ==
  /\ pc = "fetch"
  /\ IF SubjectSpace(volume_target, surface_target)
       THEN Raise("NotImplementedError") /\ reads' = reads
       ELSE /\ reads' = reads \cup {<<"glob", surface_target, "*h.aparc.annot">>}
            /\ IF annotation_files = <<>>
                 THEN Raise("IOError")
                 ELSE pc' = "load" /\ error' = error
  /\ UNCHANGED <<inputs, locals, out_files>>

\* create_cifti_image up to the loop.
LoadImages ==
  /\ pc = "load"
  /\ reads' = reads \cup {<<"load", "bold", bold_img.name>>, <<"load", "label", "atlas">>}
  /\ timepoints' = bold_img.shape[4]
  /\ model_type' = "CIFTI_MODEL_TYPE_VOXELS"
  /\ idx_offset' = 0
  /\ brainmodels' = <<>>
  /\ bm_ts' = [rows |-> bold_img.shape[4], cols |-> <<>>]
  /\ si' = 1
  /\ pc' = "loop"
  /\ UNCHANGED <<inputs, error, vox, ts, out_files>>

\* brainmodels.append(bm) and what follows it: the next structure, or after
\* the last one the volume record, the header and ci.save.
Appended(bm) ==
  IF si < NumStructures
    THEN /\ brainmodels' = Append(brainmodels, bm)
         /\ si' = si + 1
         /\ pc' = "loop"
         /\ out_files' = out_files
    ELSE /\ brainmodels' = Append(Append(brainmodels, bm), VolumeRecord(bold_img.shape))
         /\ si' = si + 1
         /\ pc' = "done"
         /\ out_files' = out_files \cup {OutName(bold_img.name)}

\* One pass of the loop for a structure without labels.
ProcessSurface ==
  /\ pc = "loop"
  /\ CIFTI_STRUCT_WITH_LABELS[si].labels = <<>>
  /\ LET structure == CIFTI_STRUCT_WITH_LABELS[si]
         r == SurfaceBranch(structure, annotation_files, gii_files, idx_offset, bm_ts)
     IN  /\ model_type' = "CIFTI_MODEL_TYPE_SURFACE"
         /\ reads' = reads \cup {<<"read_annot", structure.name, annotation_files[r.file + 1].hemi>>,
                                 <<"load_gii", structure.name, gii_files[r.file + 1].hemi>>}
         /\ ts' = r.ts
         /\ IF r.err # "none"
              THEN /\ Raise(r.err)
                   /\ UNCHANGED <<idx_offset, brainmodels, bm_ts, si, out_files>>
              ELSE /\ bm_ts' = r.stacked
                   /\ idx_offset' = AdvanceOffset(idx_offset, r.bm.index_count)
                   /\ error' = error
                   /\ Appended(r.bm)
  /\ UNCHANGED <<inputs, timepoints, vox>>

\* One pass of the loop for a structure with labels.
ProcessVolume ==
  /\ pc = "loop"
  /\ CIFTI_STRUCT_WITH_LABELS[si].labels # <<>>
  /\ LET structure == CIFTI_STRUCT_WITH_LABELS[si]
         r == VolumeBranch(structure, label_data, bold_img.shape, idx_offset, bm_ts, model_type)
     IN  /\ vox' = r.vox
         /\ ts' = r.ts
         /\ IF r.err # "none"
              THEN /\ Raise(r.err)
                   /\ UNCHANGED <<idx_offset, brainmodels, bm_ts, si, out_files>>
              ELSE /\ bm_ts' = r.stacked
                   /\ idx_offset' = AdvanceOffset(idx_offset, r.bm.index_count)
                   /\ error' = error
                   /\ Appended(r.bm)
  /\ UNCHANGED <<inputs, timepoints, model_type, reads>>

Next == ValidateInputs \/ FetchData \/ LoadImages \/ ProcessSurface \/ ProcessVolume

Spec == Init /\ [][Next]_vars
SpecSurface == InitSurface /\ [][Next]_vars
SpecVolume == InitVolume /\ [][Next]_vars
SpecTargets == InitTargets /\ [][Next]_vars

\* ------------------------------------------------------------------ claims
\* The brain models of brainmodels (all of it but the trailing volume record).
BrainModelEntries == SelectSeq(brainmodels, LAMBDA b : "index_offset" \in DOMAIN b)
IsSurfaceEntry(b) == "vertex_indices" \in DOMAIN b
\* The catalogue position of the structure an entry names.
PositionOf(b) == CHOOSE n \in 1..NumStructures : CIFTI_STRUCT_WITH_LABELS[n].name = b.brain_structure
\* The place in the [left, right] lists that belongs to a cortex structure.
SideIndex(name) == IF name = "CIFTI_STRUCTURE_CORTEX_RIGHT" THEN 2 ELSE 1
\* The loop has failed inside the pass for a structure with labels.
FailedInVolume ==
  /\ pc = "failed" /\ si \in 1..NumStructures
  /\ CIFTI_STRUCT_WITH_LABELS[si].labels # <<>>
ShapesAgree == label_data.shape = <<bold_img.shape[1], bold_img.shape[2], bold_img.shape[3]>>

\* C1: after any prefix of the catalogue has been processed, the first entry
\* starts at offset 0, each further entry starts where its predecessor ends,
\* the running offset is the end of the last entry, and every index below it
\* lies in the range of exactly one entry.
C1_OffsetsTile ==
  LET e == BrainModelEntries
  IN  /\ Len(e) > 0 => e[1].index_offset = 0
      /\ \A n \in 1..(Len(e) - 1) : e[n + 1].index_offset = e[n].index_offset + e[n].index_count
      /\ idx_offset = (IF Len(e) = 0 THEN 0 ELSE e[Len(e)].index_offset + e[Len(e)].index_count)
      /\ \A c \in 0..(idx_offset - 1) :
           Cardinality({n \in 1..Len(e) :
                          e[n].index_offset <= c /\ c < e[n].index_offset + e[n].index_count}) = 1
C1_Witness ==
  /\ Len(BrainModelEntries) = 2
  /\ BrainModelEntries[1].index_count > 0
  /\ BrainModelEntries[2].index_count > 0

\* C2: the matrix has timepoints rows and one column per index of the entries
\* built so far, and the column at local position j of an entry holds the
\* series of the vertex (of that entry's hemisphere) or voxel listed at j.
C2_ColumnsFollowEntries ==
  LET e == BrainModelEntries
  IN  pc \in {"loop", "done", "failed"} =>
        /\ bm_ts.rows = timepoints
        /\ Len(bm_ts.cols) = idx_offset
        /\ \A n \in 1..Len(e) : \A j \in 1..e[n].index_count : \A f \in 1..timepoints :
             bm_ts.cols[e[n].index_offset + j][f] =
               (IF IsSurfaceEntry(e[n])
                  THEN <<"gii", gii_files[SideIndex(e[n].brain_structure)].hemi, f - 1,
                         e[n].vertex_indices[j]>>
                  ELSE <<"bold", e[n].voxel_indices_ijk[j], f - 1>>)

\* The inputs C3 calls well formed.
WellFormed ==
  /\ TraitsAccept(volume_target, surface_target)
  /\ Len(annotation_files) = 2
  /\ \A h \in 1..2 :
       /\ "unknown" \in Range(annotation_files[h].names)
       /\ gii_files[h].nverts = Len(annotation_files[h].labels)
       /\ gii_files[h].nframes = bold_img.shape[4]
  /\ ShapesAgree
  /\ \A n \in 1..NumStructures : \A i \in 1..Len(CIFTI_STRUCT_WITH_LABELS[n].labels) :
       CIFTI_STRUCT_WITH_LABELS[n].labels[i] \in Range(label_data.flat)

\* C3: on well-formed inputs the run does not fail, and when it is done
\* brainmodels holds one entry per structure in catalogue order, then one
\* volume record, and one file has been written.
C3_RunsToCompletion ==
  WellFormed =>
    /\ pc # "failed"
    /\ pc = "done" =>
         /\ Len(brainmodels) = NumStructures + 1
         /\ \A n \in 1..NumStructures :
              brainmodels[n].brain_structure = CIFTI_STRUCT_WITH_LABELS[n].name
         /\ "volume_dimensions" \in DOMAIN brainmodels[NumStructures + 1]
         /\ Cardinality(out_files) = 1

\* C4: the entry of a surface structure lists, in increasing order, exactly
\* the positions of its hemisphere's annotation whose label is not the code
\* of "unknown"; its count is the length of that list and its number of
\* vertices the length of the annotation.
C4_RetainedVertices ==
  \A n \in 1..Len(BrainModelEntries) :
    LET b == BrainModelEntries[n]
        annot == annotation_files[SideIndex(b.brain_structure)]
        unknown == ListIndex(annot.names, "unknown")
    IN  IsSurfaceEntry(b) =>
          /\ \A i \in 1..(Len(b.vertex_indices) - 1) : b.vertex_indices[i] < b.vertex_indices[i + 1]
          /\ Range(b.vertex_indices) = {p \in 0..(Len(annot.labels) - 1) : annot.labels[p + 1] # unknown}
          /\ b.index_count = Len(b.vertex_indices)
          /\ b.surface_number_of_vertices = Len(annot.labels)

\* The voxels of a structure's label codes, code after code, each code's in
\* traversal order.
RECURSIVE MatchingVoxels(_, _)
MatchingVoxels(labels, n) ==
  IF n > Len(labels) THEN <<>>
  ELSE LabelVoxels(label_data, labels[n]) \o MatchingVoxels(labels, n + 1)

\* C5: the pass for a volume structure does not fail when the label volume
\* has the BOLD volume's shape, whatever the number of matching voxels, and
\* the voxel list it builds holds every matching voxel in traversal order.
C5_VoxelsPerCode ==
  /\ ShapesAgree => ~FailedInVolume
  /\ (FailedInVolume /\ error = "AttributeError") =>
       vox = MatchingVoxels(CIFTI_STRUCT_WITH_LABELS[si].labels, 1)
  /\ \A n \in 1..Len(BrainModelEntries) :
       LET b == BrainModelEntries[n]
       IN  ~IsSurfaceEntry(b) =>
             /\ b.voxel_indices_ijk = MatchingVoxels(CIFTI_STRUCT_WITH_LABELS[PositionOf(b)].labels, 1)
             /\ b.index_count = Len(b.voxel_indices_ijk)

\* C6: the left cortex reads only the left (first) annotation and series,
\* the right cortex only the right (second) ones.
C6_HemisphereFiles ==
  \A r \in reads :
    r[1] \in {"read_annot", "load_gii"} =>
      r[3] = (IF r[2] = "CIFTI_STRUCTURE_CORTEX_RIGHT" THEN "R" ELSE "L")

\* C7 as stated: every pair of targets other than the default pair
\* (MNI152NLin2009cAsym, fsaverage5) is refused before anything is read.
DefaultTargets == volume_target = "MNI152NLin2009cAsym" /\ surface_target = "fsaverage5"
RefusedEarly ==
  /\ pc \in {"validate", "failed"}
  /\ pc = "failed" => error \in {"TraitError", "NotImplementedError"}
  /\ reads = {} /\ out_files = {} /\ brainmodels = <<>>
C7_OnlyDefaultPair == ~DefaultTargets => RefusedEarly

\* C7 amended: a volume target other than MNI152NLin2009cAsym, or a surface
\* target other than fsaverage5, fsaverage6 and fsaverage, is refused before
\* anything is read, and nothing is written.
SupportedTargets ==
  /\ volume_target = "MNI152NLin2009cAsym"
  /\ surface_target \in {"fsaverage5", "fsaverage6", "fsaverage"}
C7_UnsupportedRefused == ~SupportedTargets => RefusedEarly
C7_Witness == ~SupportedTargets /\ pc = "failed" /\ annotation_files # <<>>

\* C8: no surface entry is built from an annotation without "unknown", nor
\* from a series whose number of vertices differs from the annotation's
\* (annotation and series being the pair the pass has read).
C8_SurfaceInputsChecked ==
  \A n \in 1..Len(BrainModelEntries) :
    LET b == BrainModelEntries[n]
        fi == FileIndex(CIFTI_STRUCT_WITH_LABELS[PositionOf(b)])
    IN  IsSurfaceEntry(b) =>
          /\ "unknown" \in Range(annotation_files[fi + 1].names)
          /\ gii_files[fi + 1].nverts = Len(annotation_files[fi + 1].labels)

\* C9: when the label volume's shape differs from the BOLD volume's, the pass
\* for the first volume structure ends the run with an indexing error.
C9_ShapeMismatchFails ==
  (~ShapesAgree /\ pc \in {"done", "failed"} /\ si \in 1..NumStructures
     /\ CIFTI_STRUCT_WITH_LABELS[si].labels # <<>>) =>
    (pc = "failed" /\ error = "IndexError" /\ out_files = {})

====
